---------------------------- MODULE Spec2Model ----------------------------
(***************************************************************************)
(* The MCP client of src/src/client/mod.rs as a state machine: the request *)
(* id counter and its RwLock, the receiver Mutex, the unbounded channel    *)
(* fed by the forwarding task spawned in Client::new, the capability       *)
(* cache, and the calls request / initialize / notify / capabilities /     *)
(* shutdown, each split at its await points.                               *)
(***************************************************************************)
EXTENDS Integers, Sequences, FiniteSets, TLC

\* ------------------------------------------------------------------ bounds
NumTasks == 2      \* concurrent callers of one client
MaxCalls == 2      \* calls started over the client's lifetime
MaxQueue == 1      \* messages buffered in the channel

Tasks == 1..NumTasks

\* ------------------------------------------------------------ data model
\* Option<T> is a sequence of length at most one.
None == <<>>
Some(x) == <<x>>

\* serde_json values a peer may put into a result: to "initialize" a
\* capabilities object or something that is none, to the rest a listing.
CapsValues == {"capsA", "capsB"}
ResultsFor(m) == IF m = "initialize" THEN CapsValues \cup {"junk"} ELSE {"tools"}

\* Peer error objects {code, message, data}.
PeerErrors ==
    { [code |-> "MethodNotFound", message |-> <<"method not found">>, data |-> Some("detail")] }

RequestMethods == {"tools/list"}
NotifyMethods == {"notifications/cancelled"}

Msg(k, m, i, r, e) == [kind |-> k, method |-> m, id |-> i, result |-> r, error |-> e]
RequestMsg(m, i) == Msg("request", m, i, None, None)
NotificationMsg(m) == Msg("notification", m, 0, None, None)
ResponseMsg(i, r, e) == Msg("response", "", i, r, e)
\* What the peer sends unprompted: a notification or a request of its own.
Noise == { NotificationMsg("notifications/progress"), RequestMsg("ping", 0) }

\* Result<Value, Error> of a call.
Outcome(k, v, c, m, d) == [kind |-> k, value |-> v, code |-> c, message |-> m, data |-> d]
NoOutcome == Outcome("none", None, "", <<>>, None)
OkValue(v) == Outcome("ok", Some(v), "", <<>>, None)
OkUnit == Outcome("ok", None, "", <<>>, None)
\* Error::Protocol { code, message, data }
ProtocolError(c, m, d) == Outcome("protocol", None, c, m, d)
\* Error::protocol(ErrorCode::InternalError, text)
InternalError(text) == ProtocolError("InternalError", <<text>>, None)
TransportError == Outcome("transport", None, "", <<"send failed">>, None)
CloseError == Outcome("transport", None, "", <<"close failed">>, None)
SerdeError == Outcome("serde", None, "", <<"invalid InitializeResult">>, None)

\* i32 -> ErrorCode of error.code.into(): the peer's code is kept.
ErrorCodeFrom(c) == c

\* A timeout message that leaves the method out.
TimeoutErrorUnnamed(m) ==
    Outcome("other", None, "", <<"Request timed out after 30 seconds">>, None)

\* Error::Other(format!("Request to '{method}' timed out after 30 seconds"))
TimeoutError(m) ==
    Outcome("other", None, "", <<"Request to '", m, "' timed out after 30 seconds">>, None)

\* A deserializer that takes any value for an InitializeResult.
FromValueLenient(v) == Some([capabilities |-> v])

\* serde_json::from_value::<InitializeResult>: only a capabilities object parses.
FromValue(v) == IF v \in CapsValues THEN Some([capabilities |-> v]) ELSE None

\* ------------------------------------------------------------------ state
VARIABLES
    pc,           \* per task: position inside its current call
    op,           \* per task: the public operation it is running
    method,       \* per task: method of the request / notification
    id,           \* per task: RequestId of the current request (0: none)
    res,          \* per task: what the inner request() returned
    out,          \* per task: what the public operation returned
    matched,      \* per task: the Response that ended the wait (Option)
    mine,         \* per task: messages this call handed to transport.send
    counter,      \* request_counter
    counterLock,  \* task holding request_counter's write guard (0: free)
    rxLock,       \* task holding response_receiver's mutex (0: free)
    caps,         \* server_capabilities (Option)
    capsWriter,   \* task whose initialize last wrote the cache (0: none)
    queue,        \* the unbounded mpsc channel
    pumpAlive,    \* the forwarding task is still running
    stoppedAt,    \* the last RequestId handed out when the forwarding task ended
    closed,       \* transport.close() has been called
    wire,         \* requests the peer has received and not answered
    issued,       \* every RequestId handed out, in order
    calls,        \* calls started so far
    lateSeen      \* some waiting call has discarded a Response with another id

vars == << pc, op, method, id, res, out, matched, mine, counter, counterLock,
           rxLock, caps, capsWriter, queue, pumpAlive, stoppedAt, closed, wire,
           issued, calls, lateSeen >>

taskVars == << pc, op, method, id, res, out, matched, mine >>
lockVars == << counter, counterLock, rxLock, issued >>
envVars == << queue, pumpAlive, stoppedAt, closed, wire >>
capVars == << caps, capsWriter >>

Init ==
    /\ pc = [t \in Tasks |-> "idle"]
    /\ op = [t \in Tasks |-> "none"]
    /\ method = [t \in Tasks |-> ""]
    /\ id = [t \in Tasks |-> 0]
    /\ res = [t \in Tasks |-> NoOutcome]
    /\ out = [t \in Tasks |-> NoOutcome]
    /\ matched = [t \in Tasks |-> None]
    /\ mine = [t \in Tasks |-> <<>>]
    /\ counter = 0
    /\ counterLock = 0
    /\ rxLock = 0
    /\ caps = None
    /\ capsWriter = 0
    /\ queue = <<>>
    /\ pumpAlive = TRUE
    /\ stoppedAt = 0
    /\ closed = FALSE
    /\ wire = {}
    /\ issued = <<>>
    /\ calls = 0
    /\ lateSeen = FALSE

\* ------------------------------------------------------- pure fragments
\* A counter that stops counting once it has handed out an id.
NextCounterStuck(c) == IF c = 0 THEN 1 ELSE c

\* *counter += 1
NextCounter(c) == c + 1

\* A match arm without its guard: any Response ends the wait.
MatchesAnyResponse(m, i) == m.kind = "response"

\* Message::Response(response) if response.id == id
Matches(m, i) == m.kind = "response" /\ m.id = i

\* The matching arm with its two tests swapped: a result hides the error.
ResponseOutcomeResultFirst(m) ==
    IF m.result # None
    THEN OkValue(m.result[1])
    ELSE IF m.error # None
         THEN ProtocolError(ErrorCodeFrom(m.error[1].code), m.error[1].message, m.error[1].data)
         ELSE InternalError("Response missing result")

\* A matching arm that takes an absent result for a null value.
ResponseOutcomeNullResult(m) ==
    IF m.error # None
    THEN ProtocolError(ErrorCodeFrom(m.error[1].code), m.error[1].message, m.error[1].data)
    ELSE IF m.result # None
         THEN OkValue(m.result[1])
         ELSE OkValue("null")

\* The body of the matching arm: the error is looked at first, then the result.
ResponseOutcome(m) ==
    IF m.error # None
    THEN ProtocolError(ErrorCodeFrom(m.error[1].code), m.error[1].message, m.error[1].data)
    ELSE IF m.result # None
         THEN OkValue(m.result[1])
         ELSE InternalError("Response missing result")

\* Senders of the channel that are still alive: the client's own
\* response_sender field, and tx_clone while the forwarding task runs.
SenderCount == 1 + (IF pumpAlive THEN 1 ELSE 0)

\* The receiving half lives inside the client for as long as calls are made.
ReceiverDropped == FALSE

\* A call is handing its result to its caller. Returning is not a suspension
\* point: no other step is taken between a call's last step and Finish.
Returning == \E t \in Tasks : pc[t] = "done"

\* A forwarding loop that goes on after its task has ended.
CanForwardRestarted ==
    /\ ~Returning
    /\ ~ReceiverDropped
    /\ Len(queue) < MaxQueue

\* The forwarding task can push one more message: it runs, the receiver
\* exists, and the model's cap on the channel's length leaves room.
CanForward ==
    /\ ~Returning
    /\ pumpAlive
    /\ ~ReceiverDropped
    /\ Len(queue) < MaxQueue

\* ------------------------------------------------------------------ calls
\* A return that leaves the counter's write guard behind.
ReturnFromRequestKeepsGuard(t, r, m) ==
    /\ res' = [res EXCEPT ![t] = r]
    /\ matched' = [matched EXCEPT ![t] = m]
    /\ counterLock' = counterLock
    /\ rxLock' = 0
    /\ IF op[t] = "initialize" /\ r.kind = "ok"
       THEN /\ pc' = [pc EXCEPT ![t] = "store"]
            /\ out' = out
       ELSE /\ pc' = [pc EXCEPT ![t] = "done"]
            /\ out' = [out EXCEPT ![t] = r]


\* initialize without the `?`: a failed request still leads to the notification.
ReturnFromRequestNoQuestionMark(t, r, m) ==
    /\ res' = [res EXCEPT ![t] = r]
    /\ matched' = [matched EXCEPT ![t] = m]
    /\ counterLock' = 0
    /\ rxLock' = 0
    /\ out' = [out EXCEPT ![t] = IF op[t] = "initialize" THEN out[t] ELSE r]
    /\ pc' = [pc EXCEPT ![t] = IF op[t] # "initialize" THEN "done"
                                ELSE IF r.kind = "ok" THEN "store" ELSE "notify"]

\* request() returns r: both guards are dropped, and the caller goes on
\* (request itself is the call, or initialize applies `?` to the result).
ReturnFromRequest(t, r, m) ==
    /\ res' = [res EXCEPT ![t] = r]
    /\ matched' = [matched EXCEPT ![t] = m]
    /\ counterLock' = 0
    /\ rxLock' = 0
    /\ IF op[t] = "initialize" /\ r.kind = "ok"
       THEN /\ pc' = [pc EXCEPT ![t] = "store"]
            /\ out' = out
       ELSE /\ pc' = [pc EXCEPT ![t] = "done"]
            /\ out' = [out EXCEPT ![t] = r]

\* Idle tasks are interchangeable: the next call is made by the lowest one.
CanCall(t) ==
    /\ ~Returning
    /\ pc[t] = "idle"
    /\ \A u \in Tasks : u < t => pc[u] # "idle"
    /\ calls < MaxCalls

\* A task calls request(method, params): it queues for the counter's write lock.
CallRequest(t) ==
    /\ lateSeen' = lateSeen
    /\ CanCall(t)
    /\ calls' = calls + 1
    /\ op' = [op EXCEPT ![t] = "request"]
    /\ \E m \in RequestMethods : method' = [method EXCEPT ![t] = m]
    /\ pc' = [pc EXCEPT ![t] = "alloc"]
    /\ UNCHANGED << id, res, out, matched, mine >>
    /\ UNCHANGED << lockVars, envVars, capVars >>

\* A task calls initialize(..): self.request("initialize", Some(params))
CallInitialize(t) ==
    /\ lateSeen' = lateSeen
    /\ CanCall(t)
    /\ calls' = calls + 1
    /\ op' = [op EXCEPT ![t] = "initialize"]
    /\ method' = [method EXCEPT ![t] = "initialize"]
    /\ pc' = [pc EXCEPT ![t] = "alloc"]
    /\ UNCHANGED << id, res, out, matched, mine >>
    /\ UNCHANGED << lockVars, envVars, capVars >>

\* An allocation that drops the write guard once it has read the id.
AllocIdDropsGuard(t) ==
    /\ lateSeen' = lateSeen
    /\ ~Returning
    /\ pc[t] = "alloc"
    /\ counterLock = 0
    /\ counterLock' = 0
    /\ counter' = NextCounter(counter)
    /\ id' = [id EXCEPT ![t] = counter']
    /\ issued' = Append(issued, counter')
    /\ pc' = [pc EXCEPT ![t] = "send"]
    /\ UNCHANGED << op, method, res, out, matched, mine, rxLock, calls >>
    /\ UNCHANGED << envVars, capVars >>

\* let mut counter = self.request_counter.write().await; *counter += 1;
\* let id = RequestId::Number(*counter);   (the guard stays alive)
AllocId(t) ==
    /\ lateSeen' = lateSeen
    /\ ~Returning
    /\ pc[t] = "alloc"
    /\ counterLock = 0
    /\ counterLock' = t
    /\ counter' = NextCounter(counter)
    /\ id' = [id EXCEPT ![t] = counter']
    /\ issued' = Append(issued, counter')
    /\ pc' = [pc EXCEPT ![t] = "send"]
    /\ UNCHANGED << op, method, res, out, matched, mine, rxLock, calls >>
    /\ UNCHANGED << envVars, capVars >>

\* self.transport.send(Message::Request(request)).await succeeds
SendRequestOk(t) ==
    /\ lateSeen' = lateSeen
    /\ ~Returning
    /\ pc[t] = "send"
    /\ mine' = [mine EXCEPT ![t] = Append(@, RequestMsg(method[t], id[t]))]
    /\ wire' = wire \cup {RequestMsg(method[t], id[t])}
    /\ pc' = [pc EXCEPT ![t] = "lock"]
    /\ UNCHANGED << op, method, id, res, out, matched, calls >>
    /\ UNCHANGED << lockVars, capVars, queue, pumpAlive, stoppedAt, closed >>

\* A failed send that is ignored: the call goes on to wait for a response.
SendRequestFailGoesOn(t) ==
    /\ lateSeen' = lateSeen
    /\ ~Returning
    /\ pc[t] = "send"
    /\ pc' = [pc EXCEPT ![t] = "lock"]
    /\ UNCHANGED << op, method, id, res, out, matched, mine, calls >>
    /\ UNCHANGED << lockVars, envVars, capVars >>

\* self.transport.send(...).await? fails: the error is returned
SendRequestFail(t) ==
    /\ lateSeen' = lateSeen
    /\ ~Returning
    /\ pc[t] = "send"
    /\ ReturnFromRequest(t, TransportError, None)
    /\ UNCHANGED << op, method, id, mine, counter, issued, calls >>
    /\ UNCHANGED << envVars, capVars >>

\* A call that enters the receive loop without taking the receiver's mutex.
LockReceiverNoMutex(t) ==
    /\ lateSeen' = lateSeen
    /\ ~Returning
    /\ pc[t] = "lock"
    /\ pc' = [pc EXCEPT ![t] = "recv"]
    /\ UNCHANGED << op, method, id, res, out, matched, mine, calls >>
    /\ UNCHANGED << lockVars, envVars, capVars >>

\* let mut rx = self.response_receiver.lock().await;
LockReceiver(t) ==
    /\ lateSeen' = lateSeen
    /\ ~Returning
    /\ pc[t] = "lock"
    /\ rxLock = 0
    /\ rxLock' = t
    /\ pc' = [pc EXCEPT ![t] = "recv"]
    /\ UNCHANGED << op, method, id, res, out, matched, mine, calls >>
    /\ UNCHANGED << counter, counterLock, issued, envVars, capVars >>

\* A receive loop that gives up at the first message that is not the answer.
RecvStopsAtOther(t) ==
    /\ ~Returning
    /\ pc[t] = "recv"
    /\ rxLock = t
    /\ queue # <<>>
    /\ queue' = Tail(queue)
    /\ lateSeen' = (lateSeen \/ (Head(queue).kind = "response" /\ Head(queue).id # id[t]))
    /\ IF Matches(Head(queue), id[t])
       THEN ReturnFromRequest(t, ResponseOutcome(Head(queue)), Some(Head(queue)))
       ELSE ReturnFromRequest(t, InternalError("Unexpected message"), None)
    /\ UNCHANGED << op, method, id, mine, counter, issued, calls >>
    /\ UNCHANGED << pumpAlive, stoppedAt, closed, wire, capVars >>

\* One turn of `while let Some(message) = rx.recv().await { match message .. }`
\* and the code after the loop, reached when recv() yields None.
Recv(t) ==
    /\ ~Returning
    /\ pc[t] = "recv"
    /\ rxLock = t
    /\ IF queue # <<>>
       THEN /\ queue' = Tail(queue)
            /\ IF Matches(Head(queue), id[t])
               THEN /\ ReturnFromRequest(t, ResponseOutcome(Head(queue)), Some(Head(queue)))
                    /\ lateSeen' = lateSeen
               ELSE /\ lateSeen' = (lateSeen \/ Head(queue).kind = "response")
                    /\ UNCHANGED << pc, res, out, matched, counterLock, rxLock >>
       ELSE /\ SenderCount = 0
            /\ queue' = queue
            /\ lateSeen' = lateSeen
            /\ ReturnFromRequest(t,
                   InternalError("Connection closed while waiting for response"), None)
    /\ UNCHANGED << op, method, id, mine, counter, issued, calls >>
    /\ UNCHANGED << pumpAlive, stoppedAt, closed, wire, capVars >>

\* A wait without the timeout around it: the deadline never ends the call.
TimeoutNever(t) == FALSE /\ UNCHANGED vars

\* tokio::time::timeout(Duration::from_secs(30), ..) elapses: Err(_) arm
Timeout(t) ==
    /\ lateSeen' = lateSeen
    /\ ~Returning
    /\ pc[t] = "recv"
    /\ ReturnFromRequest(t, TimeoutError(method[t]), None)
    /\ UNCHANGED << op, method, id, mine, counter, issued, calls >>
    /\ UNCHANGED << envVars, capVars >>

\* initialize after request() returned Ok(response): from_value, then
\* *self.server_capabilities.write().await = Some(init_result.capabilities)
InitStore(t) ==
    /\ lateSeen' = lateSeen
    /\ ~Returning
    /\ pc[t] = "store"
    /\ LET parsed == FromValue(res[t].value[1]) IN
         IF parsed = None
         THEN /\ out' = [out EXCEPT ![t] = SerdeError]
              /\ pc' = [pc EXCEPT ![t] = "done"]
              /\ UNCHANGED capVars
         ELSE /\ caps' = Some(parsed[1].capabilities)
              /\ capsWriter' = t
              /\ pc' = [pc EXCEPT ![t] = "notify"]
              /\ out' = out
    /\ UNCHANGED << op, method, id, res, matched, mine, calls >>
    /\ UNCHANGED << lockVars, envVars >>

\* initialize: self.notify("notifications/initialized", None).await succeeds,
\* and initialize returns Ok(init_result)
InitNotifyOk(t) ==
    /\ lateSeen' = lateSeen
    /\ ~Returning
    /\ pc[t] = "notify"
    /\ mine' = [mine EXCEPT ![t] = Append(@, NotificationMsg("notifications/initialized"))]
    /\ out' = [out EXCEPT ![t] = res[t]]
    /\ pc' = [pc EXCEPT ![t] = "done"]
    /\ UNCHANGED << op, method, id, res, matched, calls >>
    /\ UNCHANGED << lockVars, envVars, capVars >>

\* A failed notification that takes the stored capabilities back.
InitNotifyFailClears(t) ==
    /\ lateSeen' = lateSeen
    /\ ~Returning
    /\ pc[t] = "notify"
    /\ out' = [out EXCEPT ![t] = TransportError]
    /\ pc' = [pc EXCEPT ![t] = "done"]
    /\ caps' = None
    /\ UNCHANGED << op, method, id, res, matched, mine, calls, capsWriter >>
    /\ UNCHANGED << lockVars, envVars >>

\* initialize: the notification's send fails, and `?` returns the error
InitNotifyFail(t) ==
    /\ lateSeen' = lateSeen
    /\ ~Returning
    /\ pc[t] = "notify"
    /\ out' = [out EXCEPT ![t] = TransportError]
    /\ pc' = [pc EXCEPT ![t] = "done"]
    /\ UNCHANGED << op, method, id, res, matched, mine, calls >>
    /\ UNCHANGED << lockVars, envVars, capVars >>

\* A notify that takes a RequestId for its envelope.
NotifyTakesId(t) ==
    /\ lateSeen' = lateSeen
    /\ CanCall(t)
    /\ counterLock = 0
    /\ calls' = calls + 1
    /\ op' = [op EXCEPT ![t] = "notify"]
    /\ counter' = NextCounter(counter)
    /\ issued' = Append(issued, counter')
    /\ \E m \in NotifyMethods :
         /\ method' = [method EXCEPT ![t] = m]
         /\ \/ /\ mine' = [mine EXCEPT ![t] = <<NotificationMsg(m)>>]
               /\ out' = [out EXCEPT ![t] = OkUnit]
            \/ /\ mine' = mine
               /\ out' = [out EXCEPT ![t] = TransportError]
    /\ pc' = [pc EXCEPT ![t] = "done"]
    /\ UNCHANGED << id, res, matched, counterLock, rxLock >>
    /\ UNCHANGED << envVars, capVars >>

\* A task calls notify(method, params): the envelope is sent, or the send's
\* error is returned.
Notify(t) ==
    /\ lateSeen' = lateSeen
    /\ CanCall(t)
    /\ calls' = calls + 1
    /\ op' = [op EXCEPT ![t] = "notify"]
    /\ \E m \in NotifyMethods :
         /\ method' = [method EXCEPT ![t] = m]
         /\ \/ /\ mine' = [mine EXCEPT ![t] = <<NotificationMsg(m)>>]
               /\ out' = [out EXCEPT ![t] = OkUnit]
            \/ /\ mine' = mine
               /\ out' = [out EXCEPT ![t] = TransportError]
    /\ pc' = [pc EXCEPT ![t] = "done"]
    /\ UNCHANGED << id, res, matched >>
    /\ UNCHANGED << lockVars, envVars, capVars >>

\* self.server_capabilities.read().await.clone()
Capabilities(t) ==
    /\ lateSeen' = lateSeen
    /\ CanCall(t)
    /\ calls' = calls + 1
    /\ op' = [op EXCEPT ![t] = "capabilities"]
    /\ out' = [out EXCEPT ![t] = Outcome("caps", caps, "", <<>>, None)]
    /\ pc' = [pc EXCEPT ![t] = "done"]
    /\ UNCHANGED << method, id, res, matched, mine >>
    /\ UNCHANGED << lockVars, envVars, capVars >>

\* self.transport.close().await
Shutdown(t) ==
    /\ lateSeen' = lateSeen
    /\ CanCall(t)
    /\ calls' = calls + 1
    /\ op' = [op EXCEPT ![t] = "shutdown"]
    /\ closed' = TRUE
    /\ \E r \in {OkUnit, CloseError} : out' = [out EXCEPT ![t] = r]
    /\ pc' = [pc EXCEPT ![t] = "done"]
    /\ UNCHANGED << method, id, res, matched, mine >>
    /\ UNCHANGED << lockVars, capVars, queue, pumpAlive, stoppedAt, wire >>

\* The caller has its result; the task is free to make another call.
Finish(t) ==
    /\ lateSeen' = lateSeen
    /\ pc[t] = "done"
    /\ pc' = [pc EXCEPT ![t] = "idle"]
    /\ op' = [op EXCEPT ![t] = "none"]
    /\ method' = [method EXCEPT ![t] = ""]
    /\ id' = [id EXCEPT ![t] = 0]
    /\ res' = [res EXCEPT ![t] = NoOutcome]
    /\ out' = [out EXCEPT ![t] = NoOutcome]
    /\ matched' = [matched EXCEPT ![t] = None]
    /\ mine' = [mine EXCEPT ![t] = <<>>]
    /\ UNCHANGED << calls, lockVars, envVars, capVars >>

\* ------------------------------------------- the forwarding task
\* The task spawned by Client::new, one turn of
\*   while let Some(result) = stream.next().await { match result { .. } }
\* per step. The transport's stream is lazy: what next() yields is decided
\* when the task polls it.

\* next() yields Ok(message), a Response of the peer to a request it has
\* received, with any mix of fields; tx_clone.send(message) forwards it.
PumpResponse ==
    /\ lateSeen' = lateSeen
    /\ CanForward
    /\ \E q \in wire :
         \E r \in {None} \cup {Some(v) : v \in ResultsFor(q.method)} :
           \E e \in {None} \cup {Some(x) : x \in PeerErrors} :
             /\ queue' = Append(queue, ResponseMsg(q.id, r, e))
             /\ wire' = wire \ {q}
    /\ UNCHANGED << taskVars, lockVars, capVars, pumpAlive, stoppedAt, closed, calls >>

\* A forwarding loop that sends each message it receives twice.
PumpNoiseTwice ==
    /\ lateSeen' = lateSeen
    /\ CanForward
    /\ \E n \in Noise : queue' = queue \o << n, n >>
    /\ UNCHANGED << taskVars, lockVars, capVars, pumpAlive, stoppedAt, closed, wire, calls >>

\* next() yields Ok(message), a notification or a request of the peer's own.
PumpNoise ==
    /\ lateSeen' = lateSeen
    /\ CanForward
    /\ \E n \in Noise : queue' = Append(queue, n)
    /\ UNCHANGED << taskVars, lockVars, capVars, pumpAlive, stoppedAt, closed, wire, calls >>

\* next() yields Err(e): break. (tx_clone.send fails only once the receiver
\* is dropped, which ends the task the same way.)
PumpError ==
    /\ lateSeen' = lateSeen
    /\ ~Returning
    /\ pumpAlive
    /\ pumpAlive' = FALSE
    /\ stoppedAt' = counter
    /\ UNCHANGED << taskVars, lockVars, capVars, queue, closed, wire, calls >>

\* next() yields None: the stream of a closed transport has ended.
PumpEnd ==
    /\ lateSeen' = lateSeen
    /\ ~Returning
    /\ pumpAlive
    /\ closed
    /\ pumpAlive' = FALSE
    /\ stoppedAt' = counter
    /\ UNCHANGED << taskVars, lockVars, capVars, queue, closed, wire, calls >>

Next ==
    \/ \E t \in Tasks : CallRequest(t)
    \/ \E t \in Tasks : CallInitialize(t)
    \/ \E t \in Tasks : AllocId(t)
    \/ \E t \in Tasks : SendRequestOk(t)
    \/ \E t \in Tasks : SendRequestFail(t)
    \/ \E t \in Tasks : LockReceiver(t)
    \/ \E t \in Tasks : Recv(t)
    \/ \E t \in Tasks : Timeout(t)
    \/ \E t \in Tasks : InitStore(t)
    \/ \E t \in Tasks : InitNotifyOk(t)
    \/ \E t \in Tasks : InitNotifyFail(t)
    \/ \E t \in Tasks : Notify(t)
    \/ \E t \in Tasks : Capabilities(t)
    \/ \E t \in Tasks : Shutdown(t)
    \/ \E t \in Tasks : Finish(t)
    \/ PumpResponse
    \/ PumpNoise
    \/ PumpError
    \/ PumpEnd

Spec == Init /\ [][Next]_vars

\* What the code's scheduling gives: tokio's RwLock and Mutex queue their
\* waiters fairly, transport.send comes back, the 30 s timer fires, and a
\* task that can run is run.
Fairness ==
    \A t \in Tasks :
      /\ SF_vars(AllocId(t))
      /\ WF_vars(SendRequestOk(t) \/ SendRequestFail(t))
      /\ WF_vars(LockReceiver(t))
      /\ WF_vars(Timeout(t))
      /\ WF_vars(InitStore(t))
      /\ WF_vars(InitNotifyOk(t) \/ InitNotifyFail(t))
      /\ WF_vars(Finish(t))

FairSpec == Spec /\ Fairness

\* ------------------------------------------------------------------ claims
\* request() has returned to task t (to its caller, or into initialize).
Returned(t) == res[t].kind # "none"

\* C1: a request call that returns a success value or a Protocol error
\* returns the payload of a Response whose id is the id the call put in its
\* own Request, whatever was popped before it.
C1_OwnResponse ==
    \A t \in Tasks :
      (Returned(t) /\ res[t].kind \in {"ok", "protocol"}) =>
        /\ matched[t] # None
        /\ matched[t][1].kind = "response"
        /\ matched[t][1].id = id[t]
        /\ mine[t] # <<>>
        /\ mine[t][1] = RequestMsg(method[t], id[t])
        /\ res[t].kind = "ok" => res[t].value = matched[t][1].result
        /\ (res[t].kind = "protocol" /\ matched[t][1].error # None) =>
              res[t].message = matched[t][1].error[1].message

\* C1 witness: the second call succeeds after a late response to the first
\* call was discarded.
C1_Witness ==
    \E t \in Tasks :
      /\ pc[t] = "done"
      /\ op[t] = "request"
      /\ res[t].kind = "ok"
      /\ id[t] = 2
      /\ lateSeen

\* C2: the ids handed out start at 1 and strictly increase, and no two calls
\* hold the same id.
C2_IdsIncrease ==
    /\ Len(issued) > 0 => issued[1] = 1
    /\ \A i, j \in 1..Len(issued) : i < j => issued[i] < issued[j]
    /\ \A t, u \in Tasks : (t # u /\ id[t] # 0) => id[t] # id[u]

\* C2 witness: a second id is handed out after the first call timed out or
\* failed to send.
C2_Witness ==
    /\ Len(issued) >= 2
    /\ \E t \in Tasks : id[t] = 2 /\ pc[t] = "done" /\ res[t].kind \in {"other", "transport"}

\* Task t is inside request(): queued for the counter, sending, or waiting.
InRequest(t) == pc[t] \in {"alloc", "send", "lock", "recv"}

\* C3: every request call ends, with one outcome out of success value,
\* protocol error, internal error, timeout or send failure, and once it has
\* its outcome it gets no other.
C3_OneOutcome ==
    /\ \A t \in Tasks : InRequest(t) ~> Returned(t)
    /\ [](\A t \in Tasks : Returned(t) => ~InRequest(t))
    /\ [](\A t \in Tasks : Returned(t) => res[t].kind \in {"ok", "protocol", "other", "transport"})
    /\ [][\A t \in Tasks : Returned(t) => res'[t] \in {res[t], NoOutcome}]_vars

\* C3 witness: a call has returned while another call is queued behind it.
C3_Witness ==
    \E t, u \in Tasks : Returned(t) /\ pc[t] = "done" /\ op[t] = "request" /\ pc[u] = "alloc"

\* C4: a call that waits and gets no matching response ends, and it ends in
\* the timeout error that names its method; messages for others do not keep
\* it waiting.
C4_TimeoutNamesMethod ==
    /\ \A t \in Tasks : (pc[t] = "recv") ~> Returned(t)
    /\ [](\A t \in Tasks :
            (Returned(t) /\ matched[t] = None /\ res[t].kind # "transport") =>
              /\ res[t].kind = "other"
              /\ \E i \in 1..Len(res[t].message) : res[t].message[i] = method[t])

\* C4 witness: the initialize request times out after the call discarded a
\* response to an earlier call.
C4_Witness ==
    \E t \in Tasks :
      /\ pc[t] = "done"
      /\ method[t] = "initialize"
      /\ res[t].kind = "other"
      /\ lateSeen

\* C5: when the Response with the call's id carries an error, the call
\* fails with a Protocol error holding that error's code, message and data,
\* also when the Response carries a result as well.
C5_ErrorVerbatim ==
    \A t \in Tasks :
      (Returned(t) /\ matched[t] # None /\ matched[t][1].error # None) =>
        res[t] = ProtocolError(matched[t][1].error[1].code,
                               matched[t][1].error[1].message,
                               matched[t][1].error[1].data)

\* C5 witness: the matching Response carried an error and a result.
C5_Witness ==
    \E t \in Tasks :
      /\ Returned(t)
      /\ matched[t] # None
      /\ matched[t][1].error # None
      /\ matched[t][1].result # None
      /\ res[t].kind = "protocol"

\* The step in which task t's initialize returns Ok.
InitializeReturnsOk(t) ==
    op[t] = "initialize" /\ out[t].kind = "none" /\ out'[t].kind = "ok"

\* C6 as stated: the cache changes exactly when an initialize call returns
\* Ok, to the capabilities in that call's result, so that it is absent until
\* a handshake has succeeded and holds the last successful one's afterwards.
C6_CacheFollowsOk ==
    [][/\ caps' # caps => \E t \in Tasks : InitializeReturnsOk(t)
       /\ \A t \in Tasks : InitializeReturnsOk(t) => caps' = out'[t].value]_vars

\* C6 amended: the cache is absent until an initialize call stores the
\* capabilities of its successful response (before its notification is
\* sent), from then on it holds what was stored last, capabilities()
\* returns it, and no other step changes it.
C6_CacheFollowsStore ==
    /\ [][caps' # caps =>
            \E t \in Tasks :
              /\ op[t] = "initialize"
              /\ pc[t] = "store"
              /\ pc'[t] = "notify"
              /\ res[t].kind = "ok"
              /\ res[t].value[1] \in CapsValues
              /\ caps' = res[t].value]_vars
    /\ [](caps = None <=> capsWriter = 0)
    /\ [](\A t \in Tasks :
            (op[t] = "capabilities" /\ pc[t] = "done") => out[t].value = caps)
    /\ [](\A t \in Tasks :
            (op[t] = "initialize" /\ pc[t] \in {"notify", "done"} /\ out[t].kind \in {"none", "ok"}
               /\ res[t].kind = "ok" /\ capsWriter = t) => caps = res[t].value)

\* C6 witness: capabilities() returns a value while the only handshake so
\* far has not returned.
C6_Witness ==
    \E t, u \in Tasks :
      /\ op[t] = "capabilities"
      /\ pc[t] = "done"
      /\ out[t].value # None
      /\ op[u] = "initialize"
      /\ pc[u] = "notify"
      /\ calls = 2

\* C7: an initialize call that returns Ok has sent the initialize Request and
\* then the initialized Notification, and nothing else; a call whose request
\* failed has sent no Notification.
C7_TwoMessagesInOrder ==
    \A t \in Tasks :
      op[t] = "initialize" =>
        /\ (pc[t] = "done" /\ out[t].kind = "ok") =>
              mine[t] = << RequestMsg("initialize", id[t]),
                           NotificationMsg("notifications/initialized") >>
        /\ (Returned(t) /\ res[t].kind # "ok") =>
              \A i \in 1..Len(mine[t]) : mine[t][i].kind # "notification"

\* C7 witness: an initialize call has returned Ok.
C7_Witness ==
    \E t \in Tasks :
      op[t] = "initialize" /\ pc[t] = "done" /\ out[t].kind = "ok" /\ Len(mine[t]) = 2

\* C8: a failing initialize returns its failure; a failed request leaves
\* the cache as it was, and so does every step of the call but the store;
\* when only the notification fails the cache holds the new capabilities
\* (unless another task's initialize has stored since).
C8_FailingInitialize ==
    /\ [](\A t \in Tasks :
            (op[t] = "initialize" /\ Returned(t) /\ res[t].kind # "ok") =>
              (pc[t] = "done" /\ out[t] = res[t]))
    /\ [](\A t \in Tasks :
            (op[t] = "initialize" /\ pc[t] = "done" /\ res[t].kind = "ok"
               /\ out[t].kind = "transport") =>
              (caps # None /\ (capsWriter = t => caps = res[t].value)))
    /\ [][\A t \in Tasks :
            (op[t] = "initialize" /\ pc'[t] # pc[t] /\ pc'[t] # "notify") => caps' = caps]_vars

\* C8 witness: the notification of an initialize call failed and the cache
\* holds the capabilities of that call's response.
C8_Witness ==
    \E t \in Tasks :
      /\ op[t] = "initialize"
      /\ pc[t] = "done"
      /\ res[t].kind = "ok"
      /\ out[t].kind = "transport"
      /\ caps = res[t].value

\* C9: the counter's lock is held for the increment-and-read only, so a call
\* that is sending or waiting does not hold it and a second call can take
\* its id.
C9_LockForIncrementOnly ==
    \A a \in Tasks :
      pc[a] \in {"send", "lock", "recv"} =>
        /\ counterLock # a
        /\ \A b \in Tasks : (pc[b] = "alloc" /\ ~Returning) => ENABLED AllocId(b)

\* C9 witness: a second call is queued for its id while the first one waits
\* for its response.
C9_Witness ==
    \E a, b \in Tasks : pc[a] = "recv" /\ pc[b] = "alloc" /\ counterLock = a

\* C10, the first step of the hazard it describes: while call A holds the
\* queue consumer, a second call B that has begun can go on towards sending
\* its Request, so that its response can arrive while A drains the queue.
C10_SecondCallProceeds ==
    \A a, b \in Tasks :
      (a # b /\ pc[a] = "recv" /\ rxLock = a /\ pc[b] = "alloc") =>
        (counterLock = 0 \/ counterLock = b)

\* The hazard of C10 does not occur: a Response that a waiting call pops and
\* discards never answers a request of another call that is still inside
\* request().
C10_NoLostResponse ==
    [][\A a, b \in Tasks :
         (a # b /\ pc[a] = "recv" /\ pc'[a] = "recv" /\ queue # <<>> /\ queue' = Tail(queue)
            /\ Head(queue).kind = "response")
           => ~(InRequest(b) /\ id[b] = Head(queue).id)]_vars

\* C10 witness: B has called request while A holds the queue consumer, and
\* B's Request has not been sent.
C10_Witness ==
    \E a, b \in Tasks :
      /\ pc[a] = "recv"
      /\ rxLock = a
      /\ pc[b] = "alloc"
      /\ id[b] = 0
      /\ queue # <<>>

\* The text of the error after the receive loop.
ConnectionClosedError == InternalError("Connection closed while waiting for response")

\* C11: a call that is waiting when the forwarding task has ended and the
\* channel is empty returns the internal "connection closed" error, and does
\* not wait for the deadline.
C11_ConnectionClosed ==
    [][\A t \in Tasks :
         (pc[t] = "recv" /\ ~pumpAlive /\ queue = <<>> /\ res'[t].kind # "none")
           => res'[t] = ConnectionClosedError]_vars

\* C11 witness: the forwarding task has ended, the channel is empty, and the
\* waiting call has come back with the timeout error.
C11_Witness ==
    \E t \in Tasks :
      /\ pc[t] = "done"
      /\ mine[t] # <<>>
      /\ matched[t] = None
      /\ res[t].kind = "other"
      /\ ~pumpAlive
      /\ queue = <<>>

\* Task t's call took its id after the forwarding task had ended.
StartedAfterStop(t) == ~pumpAlive /\ id[t] > stoppedAt

\* No Response with task t's id is in the channel.
NoAnswerQueued(t) == \A i \in 1..Len(queue) : ~Matches(queue[i], id[t])

\* C12: once the forwarding task has ended it stays ended and puts nothing
\* more into the channel, and every request call made afterwards whose send
\* succeeded and whose response is not in the channel ends in the timeout
\* error.
C12_PumpStopsForGood ==
    /\ [][~pumpAlive =>
            /\ ~pumpAlive'
            /\ wire \subseteq wire'
            /\ queue' = queue \/ (queue # <<>> /\ queue' = Tail(queue))]_vars
    /\ \A t \in Tasks :
         (pc[t] \in {"lock", "recv"} /\ StartedAfterStop(t) /\ NoAnswerQueued(t))
           ~> (res[t] = TimeoutError(method[t]))

\* C12 witness: a call that took its id after the forwarding task ended has
\* sent its Request and come back with the timeout error.
C12_Witness ==
    \E t \in Tasks :
      /\ pc[t] = "done"
      /\ StartedAfterStop(t)
      /\ mine[t] # <<>>
      /\ res[t] = TimeoutError(method[t])

\* The calls that are inside the receive loop.
Draining == { t \in Tasks : pc[t] = "recv" }

\* C13: at most one call is inside the receive loop at a time, it holds the
\* receiver's mutex, and a message leaves the channel only by being popped
\* by that call: one message per step, seen by no other call.
C13_SingleConsumer ==
    /\ [](Cardinality(Draining) <= 1)
    /\ [](\A t \in Tasks : pc[t] = "recv" => rxLock = t)
    /\ [][Len(queue') < Len(queue) =>
            /\ queue' = Tail(queue)
            /\ \E t \in Tasks :
                 /\ Draining = {t}
                 /\ rxLock = t
                 /\ \A u \in Tasks \ {t} :
                      /\ res'[u] = res[u]
                      /\ matched'[u] = matched[u]
                      /\ pc'[u] = pc[u]]_vars

\* C13 witness: a call has popped its Response out of the channel while a
\* second call was queued behind it, and the second call has seen nothing.
C13_Witness ==
    \E t, u \in Tasks :
      /\ pc[t] = "done"
      /\ matched[t] # None
      /\ queue = <<>>
      /\ pc[u] = "alloc"
      /\ matched[u] = None
      /\ res[u] = NoOutcome

\* The head of the channel is not the answer task t is waiting for.
HeadIsNotMine(t) ==
    /\ pc[t] = "recv"
    /\ queue # <<>>
    /\ ~Matches(Head(queue), id[t])

\* C14: a waiting call that pops a Response with another id, a Notification
\* or a Request of the peer drops it: the message is gone from the channel,
\* no call gets it, the call is still waiting, and it pops what comes next.
C14_DiscardAndGoOn ==
    /\ [][\A t \in Tasks :
            (HeadIsNotMine(t) /\ Len(queue') < Len(queue)) =>
              /\ queue' = Tail(queue)
              /\ pc'[t] = "recv"
              /\ rxLock' = t
              /\ \A u \in Tasks :
                   /\ res'[u] = res[u]
                   /\ out'[u] = out[u]
                   /\ matched'[u] = matched[u]]_vars
    /\ [](\A t \in Tasks :
            (pc[t] = "recv" /\ queue # <<>> /\ ~Returning) => ENABLED Recv(t))

\* C14 witness: a waiting call has popped a Response with another call's id
\* and is waiting on.
C14_Witness ==
    \E t \in Tasks :
      /\ pc[t] = "recv"
      /\ rxLock = t
      /\ lateSeen
      /\ res[t] = NoOutcome

\* Error::protocol(ErrorCode::InternalError, "Response missing result")
MissingResultError == InternalError("Response missing result")

\* The head of the channel is the Response to task t's Request and carries
\* neither a result nor an error.
HeadIsMineAndBare(t) ==
    /\ pc[t] = "recv"
    /\ queue # <<>>
    /\ Matches(Head(queue), id[t])
    /\ Head(queue).result = None
    /\ Head(queue).error = None

\* C15: when the Response with the call's id has neither a result nor an
\* error, popping it ends the call with the internal "missing result" error:
\* the call returns no success value and does not wait for another Response.
C15_MissingResult ==
    /\ [][\A t \in Tasks :
            (HeadIsMineAndBare(t) /\ Len(queue') < Len(queue)) =>
              /\ res'[t] = MissingResultError
              /\ pc'[t] = "done"
              /\ out'[t] = MissingResultError]_vars
    /\ [](\A t \in Tasks :
            (Returned(t) /\ matched[t] # None
               /\ matched[t][1].result = None /\ matched[t][1].error = None) =>
              /\ res[t] = MissingResultError
              /\ ~InRequest(t)
              /\ pc[t] # "store")

\* C15 witness: an initialize call got a Response with its id and nothing
\* in it, and has failed with the "missing result" error.
C15_Witness ==
    \E t \in Tasks :
      /\ op[t] = "initialize"
      /\ pc[t] = "done"
      /\ matched[t] = Some(ResponseMsg(id[t], None, None))
      /\ out[t] = MissingResultError
      /\ caps = None

\* C16: a failed send of the Request ends the call at once with the send's
\* error: nothing was handed to the peer, there is no second attempt, the
\* call does not take the receiver and pops nothing; a call that does wait
\* has sent its Request exactly once.
C16_SendFailureReturns ==
    /\ [][\A t \in Tasks :
            (pc[t] = "send" /\ pc'[t] # "send" /\ mine'[t] = mine[t]) =>
              /\ pc'[t] = "done"
              /\ res'[t] = TransportError
              /\ out'[t] = TransportError
              /\ queue' = queue
              /\ wire' = wire
              /\ rxLock' # t]_vars
    /\ [](\A t \in Tasks :
            pc[t] \in {"lock", "recv"} => mine[t] = << RequestMsg(method[t], id[t]) >>)
    /\ [](\A t \in Tasks :
            (Returned(t) /\ res[t].kind = "transport") =>
              /\ pc[t] = "done"
              /\ mine[t] = <<>>
              /\ matched[t] = None
              /\ rxLock # t)

\* C16 witness: the send of a call failed while a message was waiting in
\* the channel, and the message is still there.
C16_Witness ==
    \E t \in Tasks :
      /\ op[t] = "request"
      /\ pc[t] = "done"
      /\ out[t] = TransportError
      /\ id[t] > 0
      /\ queue # <<>>

\* What the transport's stream can yield next: a message of the peer's own,
\* or a Response to a Request the peer has received and not answered.
Receivable ==
    Noise \cup UNION { { ResponseMsg(q.id, r, e) :
                           r \in {None} \cup {Some(v) : v \in ResultsFor(q.method)},
                           e \in {None} \cup {Some(x) : x \in PeerErrors} } : q \in wire }

NotifyFrame ==
    /\ counter' = counter
    /\ issued' = issued
    /\ id' = id
    /\ counterLock' = counterLock
    /\ rxLock' = rxLock
    /\ queue' = queue
    /\ wire' = wire
    /\ caps' = caps
    /\ res' = res
    /\ matched' = matched

\* C18: notify hands one Notification to the transport and returns Ok, or
\* returns the send's error having sent nothing; it takes no id, takes no
\* lock, pops nothing and leaves the cache alone. The same holds for the
\* notify that ends initialize.
C18_NotifyOnlySends ==
    /\ [][\A t \in Tasks :
            (op[t] # "notify" /\ op'[t] = "notify") =>
              /\ NotifyFrame
              /\ id'[t] = 0
              /\ pc'[t] = "done"
              /\ \/ out'[t] = OkUnit /\ mine'[t] = << NotificationMsg(method'[t]) >>
                 \/ out'[t] = TransportError /\ mine'[t] = <<>>
              /\ \A u \in Tasks \ {t} : pc'[u] = pc[u] /\ out'[u] = out[u] /\ mine'[u] = mine[u]]_vars
    /\ [][\A t \in Tasks :
            (pc[t] = "notify" /\ pc'[t] # "notify") =>
              /\ NotifyFrame
              /\ pc'[t] = "done"
              /\ \/ /\ out'[t] = res[t]
                    /\ mine'[t] = Append(mine[t], NotificationMsg("notifications/initialized"))
                 \/ out'[t] = TransportError /\ mine'[t] = mine[t]]_vars

\* C18 witness: notify has returned Ok while another call holds both locks
\* and waits, ids have been handed out, and a message is in the channel.
C18_Witness ==
    \E t, u \in Tasks :
      /\ op[t] = "notify"
      /\ pc[t] = "done"
      /\ out[t] = OkUnit
      /\ mine[t] = << NotificationMsg(method[t]) >>
      /\ pc[u] = "recv"
      /\ counterLock = u
      /\ rxLock = u
      /\ queue # <<>>

\* The calls between their id allocation and their outcome.
InFlight == { t \in Tasks : pc[t] \in {"send", "lock", "recv"} }

\* C19: at most one request call is between its id allocation and its
\* outcome, and it holds the counter's write guard; so each Request handed
\* to transport.send carries the id allocated last, which is greater than
\* the id of every Request sent before.
C19_SerialisedRequests ==
    /\ [](Cardinality(InFlight) <= 1)
    /\ [](\A t \in Tasks : t \in InFlight <=> counterLock = t)
    /\ [][\A t \in Tasks :
            (pc[t] = "send" /\ pc'[t] = "lock") =>
              /\ id[t] = counter
              /\ id[t] = issued[Len(issued)]
              /\ \A q \in wire : q.id < id[t]]_vars
    /\ [][counter' >= counter]_vars

\* C19 witness: the Request with id 2 has been sent while the Request with
\* id 1 is still unanswered, and no other call is in flight.
C19_Witness ==
    \E t \in Tasks :
      /\ pc[t] = "lock"
      /\ id[t] = 2
      /\ InFlight = {t}
      /\ \E q \in wire : q.id = 1
      /\ \E q \in wire : q.id = 2

\* Some call can take its next step.
SomeCallCanStep ==
    \E t \in Tasks :
      \/ ENABLED AllocId(t)
      \/ ENABLED SendRequestOk(t)
      \/ ENABLED LockReceiver(t)
      \/ ENABLED Timeout(t)
      \/ ENABLED InitStore(t)
      \/ ENABLED InitNotifyOk(t)
      \/ ENABLED Finish(t)

\* C20: the step in which request returns, by whichever exit, leaves both
\* locks free; a lock is held only by a call inside request, and the
\* receiver's only by the holder of the counter's (one order of taking
\* them); so while any call is unfinished some call can step, and a call
\* that asks for the counter when no call is in flight gets it.
C20_LocksReleased ==
    /\ [][\A t \in Tasks :
            (res[t] = NoOutcome /\ res'[t] # NoOutcome) =>
              (counterLock' = 0 /\ rxLock' = 0)]_vars
    /\ [](\A t \in Tasks : t \notin InFlight => (counterLock # t /\ rxLock # t))
    /\ [](rxLock # 0 => counterLock = rxLock)
    /\ []((\E t \in Tasks : pc[t] # "idle") => SomeCallCanStep)
    /\ [](\A t \in Tasks :
            (pc[t] = "alloc" /\ InFlight = {} /\ ~Returning) => ENABLED AllocId(t))

\* C20 witness: the first call timed out (its Request is still unanswered),
\* and the call made after it has taken both locks and waits.
C20_Witness ==
    \E t \in Tasks :
      /\ pc[t] = "recv"
      /\ id[t] = 2
      /\ counterLock = t
      /\ rxLock = t
      /\ \E q \in wire : q.id = 1

=============================================================================
